---- MODULE Spec2Model ----
(***************************************************************************)
(* Model of the Baymax chat proxy worker.  Two handler variants exist:     *)
(* the plain one (src/src/index.ts) and the one with the authentication    *)
(* layer (src/unnamed/part_000).  A deployment runs one of them; requests  *)
(* are handled concurrently and interleave at every await on the           *)
(* key-value stores.                                                       *)
(*                                                                         *)
(* Text is a sequence of tokens: " " is one whitespace character, "BIG"    *)
(* stands for a run of 20001 non-space characters, any other token is a    *)
(* short run of non-space characters, counted as one.  A JavaScript value  *)
(* that may be null or a string is Null or Str(text).                      *)
(***************************************************************************)
EXTENDS Naturals, Sequences, FiniteSets, TLC

VARIABLES
    variant,    \* "plain" (index.ts) or "auth" (part_000): fixed per deployment
    store,      \* CHAT_HISTORY_BAYMAX_PROXY: session key -> Null or JSON text
    users,      \* BAYMAX_USERS: key -> Null, password hash or token
    reqs,       \* the requests in flight, one per slot, with their position
    resp,       \* the response most recently sent
    nreq,       \* number of requests accepted so far, by route
    now,        \* the clock, in seconds
    issued,     \* tokens handed out to clients so far
    cleared,    \* history: session key -> "clean" after a /clear delete, "dirty" once a put
                \* followed it, "no" once a chat has read the key (and initially)
    writer,     \* history: session key -> the user whose chat last put the key's value,
                \* "" when none did (the plain handler has no users)
    signupOk    \* history: username -> number of signups answered 200

vars == <<variant, store, users, reqs, resp, nreq, now, issued, cleared, writer, signupOk>>

----------------------------------------------------------------------------
(* Bounds of the model *)

MaxPlainRequests == 3  \* requests of the plain handler that pass validation in one behaviour
MaxAuthRequests == 2   \* requests of the auth handler that pass validation in one behaviour
MaxChats == 2        \* chat requests that pass validation
MaxClears == 1       \* /clear requests that pass validation
MaxSignups == 2      \* /signup requests that pass validation
MaxLogins == 1       \* /login requests that pass validation
MaxTicks == 2        \* times the clock advances in one behaviour
MaxInFlight == 2     \* requests handled concurrently
MaxPrior == 9        \* chats already completed on session "s" in the pre-filled initial store

(* Program constants *)

MAX_HISTORY == 20
TOKEN_EXPIRY == 3600
TOKEN_REFRESH_THRESHOLD == 60
MAX_MESSAGE_LENGTH == 20000

ALLOWED_ORIGINS == {"https://baymax.onslaught2342.qzz.io", "http://localhost:5173"}

----------------------------------------------------------------------------
(* JavaScript values *)

Null == [kind |-> "null"]
Str(t) == [kind |-> "str", s |-> t]

Slots == 1 .. MaxInFlight

(* String.prototype.trim *)
RECURSIVE TrimLeft(_)
TrimLeft(t) ==
    IF t = <<>> THEN <<>>
    ELSE IF Head(t) = " " THEN TrimLeft(Tail(t)) ELSE t

RECURSIVE TrimRight(_)
TrimRight(t) ==
    IF t = <<>> THEN <<>>
    ELSE IF t[Len(t)] = " " THEN TrimRight(SubSeq(t, 1, Len(t) - 1)) ELSE t

TrimText(t) == TrimRight(TrimLeft(t))

(* replace(/\s+/g, ' ') : every run of whitespace becomes one space *)
RECURSIVE CollapseSpaces(_)
CollapseSpaces(t) ==
    IF Len(t) < 2 THEN t
    ELSE IF t[1] = " " /\ t[2] = " " THEN CollapseSpaces(Tail(t))
    ELSE <<Head(t)>> \o CollapseSpaces(Tail(t))

SanitizeInput(t) == TrimText(CollapseSpaces(t))

(* String.prototype.length *)
RECURSIVE TextLength(_)
TextLength(t) ==
    IF t = <<>> THEN 0
    ELSE (IF Head(t) = "BIG" THEN MAX_MESSAGE_LENGTH + 1 ELSE 1) + TextLength(Tail(t))

(* typeof v === 'string' && v.trim() ? v.trim() : null *)
TrimmedOrNull(v) ==
    IF v.kind = "str" /\ TrimText(v.s) # <<>> THEN Str(TrimText(v.s)) ELSE Null

(* a JavaScript truthiness test of a value that is null or a string *)
Truthy(v) == v.kind = "str" /\ v.s # <<>>

----------------------------------------------------------------------------
(* History: load, append, trim *)

DefaultSystem ==
    [role |-> "system",
     content |-> <<"You are Baymax, a friendly medical AI giving safe health advice.">>]

Stringify(h) == [kind |-> "json", value |-> h]
Parse(raw) == raw.value

LoadHistory(raw) == IF raw # Null THEN Parse(raw) ELSE <<DefaultSystem>>

IsSystem(m) == m.role = "system"
IsNotSystem(m) == m.role # "system"

(* history.find((m) => m.role === 'system') ?? null *)
RECURSIVE FindSystem(_)
FindSystem(h) ==
    IF h = <<>> THEN Null
    ELSE IF IsSystem(Head(h)) THEN Head(h) ELSE FindSystem(Tail(h))

(* a faulty variant of SliceLast: slice(0, k), the oldest k elements *)
SliceFirst(s, k) ==
    IF Len(s) <= k THEN s ELSE SubSeq(s, 1, k)

(* Array.prototype.slice(-k): slice(-0) is slice(0), the whole array *)
SliceLast(s, k) ==
    IF k = 0 \/ Len(s) <= k THEN s ELSE SubSeq(s, Len(s) - k + 1, Len(s))

(* a faulty variant of KeepCount: no room is left for the system message *)
KeepCountNoSystemSlot(systemMessage) == MAX_HISTORY

KeepCount(systemMessage) == MAX_HISTORY - (IF systemMessage # Null THEN 1 ELSE 0)

TrimHistory(h) ==
    LET systemMessage == FindSystem(h)
        nonSystem == SliceLast(SelectSeq(h, IsNotSystem), KeepCount(systemMessage))
    IN  IF systemMessage # Null THEN <<systemMessage>> \o nonSystem ELSE nonSystem

PushUser(h, text) == Append(h, [role |-> "user", content |-> text])

PushAssistant(h, text) == Append(h, [role |-> "assistant", content |-> text])

----------------------------------------------------------------------------
(* Retrieval context *)

VectorResults ==
    {  <<>>,
       <<[name |-> Str(<<"Aspirin">>), uses |-> Str(<<"pain">>), side |-> Null]>>  }

VectorBodies ==
    {Null, [kind |-> "obj", results |-> Null]}
      \cup {[kind |-> "obj", results |-> [kind |-> "arr", items |-> r]] : r \in VectorResults}

(* what the retrieval service can answer: no answer at all, or a response with any  *)
(* status and a body that is not JSON (Null), has no results, or has a results array *)
VectorOutcomes ==
    {[kind |-> "neterr"]}
      \cup {[kind |-> "resp", ok |-> o, body |-> b] : o \in BOOLEAN, b \in VectorBodies}

OrElse(v, dflt) == IF v = Null THEN dflt ELSE v.s

BulletLine(r) ==
    <<"* ">> \o OrElse(r.name, <<"Unknown">>) \o <<": Used for ">> \o OrElse(r.uses, <<"N/A">>)
        \o <<". Side effects: ">> \o OrElse(r.side, <<"None listed">>)

RECURSIVE JoinLines(_)
JoinLines(items) ==
    IF items = <<>> THEN <<>>
    ELSE IF Len(items) = 1 THEN BulletLine(Head(items))
    ELSE BulletLine(Head(items)) \o <<"\n">> \o JoinLines(Tail(items))

(* the try block around the retrieval call: the text of context afterwards; <<>> is '' *)
VectorContext(v) ==
    IF v.kind = "neterr" THEN <<>>
    ELSE IF v.body = Null THEN <<>>
    ELSE IF v.body.results = Null THEN <<>>
    ELSE LET items == v.body.results.items
         IN  IF Len(items) = 0 THEN <<>>
             ELSE IF \E i \in 1 .. Len(items) : items[i] = Null THEN <<>>
             ELSE JoinLines(items)

ContextMessage(context) ==
    [role |-> "system",
     content |-> <<"Medical database context:\n">> \o context
                    \o <<"\n\nRespond as Baymax, using this data carefully.">>]

(* if (context) history.unshift(...) *)
UnshiftContext(h, context) ==
    IF context # <<>> THEN <<ContextMessage(context)>> \o h ELSE h

----------------------------------------------------------------------------
(* Completion API *)

ReplyWord(n) == "r" \o ToString(n)

GroqData(n) ==
    {[content |-> Str(<<ReplyWord(n), " ">>), text |-> Null, reply |-> Null],
     [content |-> Null, text |-> Str(<<ReplyWord(n)>>), reply |-> Null],
     [content |-> Null, text |-> Null, reply |-> Str(<<" ", ReplyWord(n)>>)],
     [content |-> Str(<<ReplyWord(n)>>), text |-> Str(<<"ignored">>), reply |-> Str(<<"ignored">>)]}

GroqOutcomes(n) ==
    {[kind |-> "neterr"]}
      \cup {[kind |-> "resp", ok |-> FALSE, status |-> 429, text |-> Str(<<"rate limited">>)],
            [kind |-> "resp", ok |-> FALSE, status |-> 500, text |-> Null]}
      \cup {[kind |-> "resp", ok |-> TRUE, status |-> 200, data |-> d] : d \in GroqData(n)}

(* data?.choices?.[0]?.message?.content ?? data?.choices?.[0]?.text ?? reply ?? placeholder *)
RawReply(data) ==
    IF data = Null THEN <<"Model returned no reply">>
    ELSE IF data.content # Null THEN data.content.s
    ELSE IF data.text # Null THEN data.text.s
    ELSE IF data.reply # Null THEN data.reply.s
    ELSE <<"Model returned no reply">>

(* a faulty variant of ErrText: no fallback when the body cannot be read *)
ErrTextNoFallback(g) == IF g.text = Null THEN <<>> ELSE g.text.s

(* groqRes.text().catch(() => '<no-body>') *)
ErrText(g) == IF g.text = Null THEN <<"<no-body>">> ELSE g.text.s

UpstreamErrorStatus == 502

UpstreamErrorResponse(g, refreshToken) ==
    [status |-> UpstreamErrorStatus,
     body |-> [error |-> "Upstream model error", upstreamStatus |-> g.status,
               detail |-> ErrText(g), refreshToken |-> refreshToken]]

----------------------------------------------------------------------------
(* Responses *)

Undefined == [kind |-> "undefined"]

JsonResponse(status, body) == [status |-> status, body |-> body]

(* the top-level catch of the plain handler: 500 with the exception's message *)
PlainCatch(message) ==
    JsonResponse(500, [error |-> "Internal Server Error", message |-> message])

(* the top-level catch of the auth handler: err.message ?? 'Internal Server Error'; *)
(* a thrown Response has no message                                                *)
AuthCatch(err) ==
    JsonResponse(500, [error |-> IF err.kind = "error" THEN err.message
                                 ELSE "Internal Server Error"])

----------------------------------------------------------------------------
(* Tokens and password hashes (jsonwebtoken, bcryptjs) *)

Usernames == {"a", "a_token"}
Passwords == {"p", "q"}

Name(u) == [kind |-> "name", u |-> u]

(* `${username}_token` *)
TokenKey(u) == u \o "_token"

UserKeys == Usernames \cup {TokenKey(u) : u \in Usernames}

(* jwt.sign({ username }, secret, { expiresIn: TOKEN_EXPIRY }) at time t *)
CreateToken(u, t) ==
    [kind |-> "jwt", username |-> u, iat |-> t, exp |-> t + TOKEN_EXPIRY, sig |-> "good"]

(* jwt.verify: the signature is the secret's and the token is not expired at time t *)
JwtVerifies(token, t) ==
    /\ token.kind = "jwt"
    /\ token.sig = "good"
    /\ t < token.exp

(* verifyJWT: the username, or the Response it throws *)
VerifyJWT(token, t) ==
    IF JwtVerifies(token, t) /\ token.username # ""
    THEN [ok |-> TRUE, username |-> token.username]
    ELSE [ok |-> FALSE, thrown |-> [kind |-> "response", status |-> 401]]

(* authHeader.startsWith('Bearer ') ? authHeader.slice(7) : null *)
BearerToken(header) == IF header.kind = "bearer" THEN header.token ELSE Null

(* !token : null or the empty string *)
TokenMissing(token) == token = Null \/ token.kind = "empty"

(* decoded && decoded.exp && Date.now() / 1000 + TOKEN_REFRESH_THRESHOLD > decoded.exp *)
NeedsRefresh(token, t) == token.kind = "jwt" /\ t + TOKEN_REFRESH_THRESHOLD > token.exp

(* bcrypt.hash(password, 10): salted, so two hashes of one password differ *)
Hash(password, salt) == [kind |-> "hash", of |-> password, salt |-> salt]

(* a faulty variant of Compare: every password matches *)
CompareAnything(password, stored) == TRUE

(* bcrypt.compare(password, stored) *)
Compare(password, stored) == stored.kind = "hash" /\ stored.of = password

(* !username : undefined, null or '' *)
NameMissing(v) == v = Null \/ (v.kind = "name" /\ v.u = "")

----------------------------------------------------------------------------
(* Requests *)

(* contentType.toLowerCase().includes('application/json') *)
IsJsonContentType(ct) == ct \in {"application/json", "application/json; charset=utf-8"}

SessionIdInputs == {Null, Str(<<>>), Str(<<"s">>), Str(<<"t", " ">>)}

(* the keys the handlers can use: the plain one trims the sessionId, the auth one does not *)
SessionKeys == {<<"s">>, <<"t">>, <<"t", " ">>}

MessageWord(n) == "m" \o ToString(n)

UserMessageInputs(n) ==
    {Null, Str(<<" ">>), Str(<<"BIG">>), Str(<<" ", MessageWord(n), " ", " ", "x", " ">>)}

InvalidBody == [kind |-> "invalid"]

ChatBody(sid, msg) ==
    [kind |-> "obj", sessionId |-> sid, userMessage |-> msg, username |-> Null, password |-> Null]

UserBody(u, p) ==
    [kind |-> "obj", sessionId |-> Null, userMessage |-> Null, username |-> u, password |-> p]

(* chat and /clear bodies: not JSON, null, a field missing or unusable, or complete *)
ChatBodies(n) ==
    {InvalidBody, Null}
      \cup {ChatBody(Str(<<"s">>), msg) : msg \in UserMessageInputs(n)}
      \cup {ChatBody(sid, Str(<<" ", MessageWord(n), " ", " ", "x", " ">>)) :
                sid \in SessionIdInputs}

(* /signup and /login bodies *)
UserBodies ==
    {InvalidBody, Null, UserBody(Null, Name("p")), UserBody(Name(""), Name("p")),
     UserBody(Name("a"), Null)}
      \cup {UserBody(Name(u), Name(pw)) : u \in Usernames, pw \in Passwords}

NoHeader == [kind |-> "none"]

Request(method, path, origin, contentType, header, body) ==
    [method |-> method, path |-> path, origin |-> origin, contentType |-> contentType,
     header |-> header, body |-> body]

JsonType == "application/json; charset=utf-8"
GoodOrigin == "http://localhost:5173"
OtherOrigin == "https://elsewhere.example"

(* the requests sent to the plain handler that it answers without reading a body *)
PlainBodiless ==
    {Request(m, p, GoodOrigin, JsonType, NoHeader, Null) :
         m \in {"OPTIONS", "GET"}, p \in {"/", "/clear"}}
      \cup {Request("POST", "/", GoodOrigin, "text/plain", NoHeader, Null)}

(* Authorization headers a client can send at time t: none, another scheme, an *)
(* empty or malformed bearer token, a token it was issued, or one it signed    *)
(* itself                                                                      *)
Headers(t) ==
    {NoHeader, [kind |-> "basic"],
     [kind |-> "bearer", token |-> [kind |-> "empty"]],
     [kind |-> "bearer", token |-> [kind |-> "garbage"]],
     [kind |-> "bearer", token |-> [CreateToken("a", t) EXCEPT !.sig = "bad"]]}
      \cup {[kind |-> "bearer", token |-> tok] : tok \in issued}

(* the requests sent to the auth handler that it answers without reading a header *)
(* or a body                                                                      *)
AuthBodiless ==
    {Request("OPTIONS", "/", OtherOrigin, JsonType, NoHeader, Null),
     Request("POST", "/", OtherOrigin, JsonType, NoHeader, Null),
     Request("GET", "/", GoodOrigin, JsonType, NoHeader, Null)}

(* the chat route reads the body only once the token has verified *)
AuthChatBodies(h, n, t) ==
    IF h.kind = "bearer" /\ JwtVerifies(h.token, t) THEN ChatBodies(n) ELSE {Null}

(* what is recorded about a request while it is handled *)
Info0(n, method, path) ==
    [n |-> n, method |-> method, path |-> path, route |-> "none",
     origin |-> "none", gate |-> "none", body |-> "none", session |-> Null,
     loaded |-> "unread", afterClear |-> "no", trimmed |-> <<>>,
     vector |-> "none", groq |-> [kind |-> "none"], context |-> <<>>,
     puts |-> 0, deletes |-> 0, key |-> <<>>, refreshed |-> FALSE, user |-> ""]

Idle == [pc |-> "idle"]

InFlight(pc, info, key, text, refreshToken, username, password) ==
    [pc |-> pc, info |-> info, key |-> key, text |-> text, history |-> <<>>,
     refreshToken |-> refreshToken, username |-> username, password |-> password]

Done(info, r) == [info |-> info, status |-> r.status, body |-> r.body]

----------------------------------------------------------------------------
(* Routing and validation: everything a handler does before its first store access. *)
(* The result is either a response or the position the request continues from.      *)

Respond(r) == [done |-> TRUE, response |-> r]
Continue(pc, key, text) == [done |-> FALSE, pc |-> pc, key |-> key, text |-> text]

(* typeof body.userMessage === 'string' ? body.userMessage.trim() : null *)
TrimmedMessage(v) == IF v.kind = "str" THEN Str(TrimText(v.s)) ELSE Null

(* index.ts, /clear route *)
PlainClearRoute(body) ==
    IF body = InvalidBody THEN Respond(JsonResponse(400, [error |-> "Invalid JSON body"]))
    ELSE IF body = Null THEN Respond(PlainCatch("Cannot read properties of null"))
    ELSE LET sessionId == TrimmedOrNull(body.sessionId)
         IN  IF sessionId = Null
             THEN Respond(JsonResponse(400, [error |-> "Missing sessionId"]))
             ELSE Continue("delete", sessionId.s, <<>>)

(* index.ts, chat route up to the history load *)
PlainChatRoute(method, contentType, body) ==
    IF method # "POST" THEN Respond(JsonResponse(405, [error |-> "Only POST allowed"]))
    ELSE IF ~IsJsonContentType(contentType)
    THEN Respond(JsonResponse(415, [error |-> "Expected application/json"]))
    ELSE IF body = InvalidBody THEN Respond(JsonResponse(400, [error |-> "Invalid JSON body"]))
    ELSE IF body = Null THEN Respond(PlainCatch("Cannot read properties of null"))
    ELSE LET sessionId == TrimmedOrNull(body.sessionId)
             userMessage == TrimmedMessage(body.userMessage)
         IN  IF sessionId = Null \/ ~Truthy(userMessage)
             THEN Respond(JsonResponse(400, [error |-> "Missing sessionId or userMessage"]))
             ELSE IF TextLength(userMessage.s) > MAX_MESSAGE_LENGTH
             THEN Respond(JsonResponse(413, [error |-> "userMessage too long"]))
             ELSE Continue("get", sessionId.s, SanitizeInput(userMessage.s))

PlainRoute(method, path, contentType, body) ==
    IF method = "OPTIONS" THEN Respond(JsonResponse(204, Null))
    ELSE IF path = "/clear" /\ method = "POST" THEN PlainClearRoute(body)
    ELSE PlainChatRoute(method, contentType, body)

PlainRouteName(method, path) ==
    IF method = "OPTIONS" THEN "preflight"
    ELSE IF path = "/clear" /\ method = "POST" THEN "clear"
    ELSE "chat"

(* part_000, /signup and /login up to the user store read *)
CredentialsRoute(pc, body) ==
    IF body = InvalidBody \/ body = Null
    THEN Respond(JsonResponse(400, [error |-> "Invalid JSON"]))
    ELSE IF NameMissing(body.username) \/ NameMissing(body.password)
    THEN Respond(JsonResponse(400, [error |-> "Username and password required"]))
    ELSE Continue(pc, <<>>, <<>>)

(* part_000, /verify *)
VerifyRoute(header, t) ==
    LET token == BearerToken(header)
    IN  IF TokenMissing(token) THEN Respond(JsonResponse(401, [error |-> "Missing token"]))
        ELSE LET v == VerifyJWT(token, t)
             IN  IF v.ok THEN Respond(JsonResponse(200, [username |-> v.username]))
                 ELSE Respond(AuthCatch(v.thrown))

(* part_000, chat route after the token check, up to the history load *)
AuthChatBody(body, refreshToken) ==
    IF body = InvalidBody \/ body = Null
    THEN Respond(JsonResponse(400, [error |-> "Invalid JSON", refreshToken |-> refreshToken]))
    ELSE LET userMessage == TrimmedMessage(body.userMessage)
         IN  IF ~Truthy(userMessage)
             THEN Respond(JsonResponse(400, [error |-> "Missing userMessage",
                                             refreshToken |-> refreshToken]))
             ELSE IF TextLength(userMessage.s) > MAX_MESSAGE_LENGTH
             THEN Respond(JsonResponse(413, [error |-> "userMessage too long",
                                             refreshToken |-> refreshToken]))
             ELSE IF ~Truthy(body.sessionId)
             THEN Respond(JsonResponse(400, [error |-> "Missing sessionId",
                                             refreshToken |-> refreshToken]))
             ELSE Continue("get", body.sessionId.s, SanitizeInput(userMessage.s))

(* a faulty variant of AuthChatGate: the token is decoded but not verified *)
AuthChatGateDecodeOnly(method, header, t) ==
    LET token == BearerToken(header)
    IN  IF method # "POST" THEN Respond(JsonResponse(405, [error |-> "Only POST allowed"]))
        ELSE IF TokenMissing(token)
        THEN Respond(JsonResponse(401, [error |-> "Unauthorized: missing token"]))
        ELSE IF token.kind = "jwt" THEN Continue("body", <<>>, <<>>)
        ELSE Respond(AuthCatch([kind |-> "response", status |-> 401]))

(* part_000, chat route: method and token checks *)
AuthChatGate(method, header, t) ==
    LET token == BearerToken(header)
    IN  IF method # "POST" THEN Respond(JsonResponse(405, [error |-> "Only POST allowed"]))
        ELSE IF TokenMissing(token)
        THEN Respond(JsonResponse(401, [error |-> "Unauthorized: missing token"]))
        ELSE LET v == VerifyJWT(token, t)
             IN  IF v.ok THEN Continue("body", <<>>, <<>>) ELSE Respond(AuthCatch(v.thrown))

AuthRouteName(method, path, origin) ==
    IF method = "OPTIONS" THEN "preflight"
    ELSE IF origin \notin ALLOWED_ORIGINS THEN "forbidden"
    ELSE IF path = "/signup" /\ method = "POST" THEN "signup"
    ELSE IF path = "/login" /\ method = "POST" THEN "login"
    ELSE IF path = "/verify" THEN "verify"
    ELSE "chat"

(* how the presented Authorization header fares *)
Gate(header, t) ==
    LET token == BearerToken(header)
    IN  IF TokenMissing(token) THEN "missing"
        ELSE IF token.kind # "jwt" THEN "malformed"
        ELSE IF token.sig # "good" THEN "badsig"
        ELSE IF ~(t < token.exp) THEN "expired"
        ELSE "valid"

----------------------------------------------------------------------------
(* One chat turn as a whole, and the store a run of earlier chats leaves behind *)

ChatTurn(raw, text, context, reply) ==
    Stringify(PushAssistant(UnshiftContext(TrimHistory(PushUser(LoadHistory(raw), text)),
                                           context),
                            reply))

RECURSIVE PriorHistory(_)
PriorHistory(k) ==
    IF k = 0 THEN Null
    ELSE ChatTurn(PriorHistory(k - 1), <<"p" \o ToString(k)>>, <<>>, <<"q" \o ToString(k)>>)

PriorToken == CreateToken("a", 0)

(* the user store after user "a" signed up with password "p" at time 0 *)
PriorUsers ==
    [k \in UserKeys |-> IF k = "a" THEN Hash("p", 0)
                        ELSE IF k = TokenKey("a") THEN PriorToken
                        ELSE Null]

(* the user store after "a_token" and then "a" signed up at time 0, each with *)
(* password "p": the token record of "a" has replaced the hash of "a_token"   *)
PriorUsersBoth ==
    [k \in UserKeys |-> IF k = "a" THEN Hash("p", 0)
                        ELSE IF k = TokenKey("a") THEN PriorToken
                        ELSE IF k = TokenKey("a_token") THEN CreateToken("a_token", 0)
                        ELSE Null]

----------------------------------------------------------------------------
(* Initial state *)

NoResponse == Done(Info0(0, "none", "none"), JsonResponse(0, Null))

Init ==
    /\ variant \in {"plain", "auth"}
    /\ \E h \in {Null, PriorHistory(MaxPrior)} :
           store = [k \in SessionKeys |-> IF k = <<"s">> THEN h ELSE Null]
    /\ \/ /\ users = [k \in UserKeys |-> Null]
          /\ issued = {}
          /\ signupOk = [u \in Usernames |-> 0]
       \/ /\ variant = "auth"
          /\ users = PriorUsers
          /\ issued = {PriorToken}
          /\ signupOk = [u \in Usernames |-> IF u = "a" THEN 1 ELSE 0]
       \/ /\ variant = "auth"
          /\ users = PriorUsersBoth
          /\ issued = {PriorToken, CreateToken("a_token", 0)}
          /\ signupOk = [u \in Usernames |-> 1]
    /\ reqs = [i \in Slots |-> Idle]
    /\ resp = NoResponse
    /\ nreq = [route \in {"chat", "clear", "signup", "login"} |-> 0]
    /\ now = 0
    /\ cleared = [k \in SessionKeys |-> "no"]
    /\ writer = [k \in SessionKeys |-> ""]

----------------------------------------------------------------------------
(* Receiving a request *)

(* a request is taken by the first free slot *)
FreeSlot(i) == reqs[i] = Idle /\ \A j \in Slots : j < i => reqs[j] # Idle

BodyKind(body) ==
    IF body = InvalidBody THEN "invalid" ELSE IF body = Null THEN "null" ELSE "object"

BodySession(body) == IF body.kind = "obj" THEN body.sessionId ELSE Null

PlainInfo(n, q) ==
    [Info0(n, q.method, q.path) EXCEPT !.route = PlainRouteName(q.method, q.path),
                                       !.body = BodyKind(q.body),
                                       !.session = BodySession(q.body)]

Quiet == \A j \in Slots : reqs[j] = Idle

(* A request answered at validation without a store access commutes with every *)
(* step of the requests in flight: it is taken when none is and the previous   *)
(* response has been sent, and it is not counted.                              *)
CanReject == Quiet /\ resp = NoResponse

(* the requests accepted so far, and whether one more fits the bounds *)
Accepted == nreq["chat"] + nreq["clear"] + nreq["signup"] + nreq["login"]

Quota(route) ==
    CASE route = "chat" -> MaxChats
      [] route = "clear" -> MaxClears
      [] route = "signup" -> MaxSignups
      [] route = "login" -> MaxLogins
      [] OTHER -> 0

MaxRequests == IF variant = "plain" THEN MaxPlainRequests ELSE MaxAuthRequests

HasQuota(route) == Accepted < MaxRequests /\ nreq[route] < Quota(route)

Accept(route) == [nreq EXCEPT ![route] = @ + 1]

(* index.ts up to the first store access: what is recorded and where it goes *)
PlainEntry(n, q) ==
    [info |-> PlainInfo(n, q),
     r |-> PlainRoute(q.method, q.path, q.contentType, q.body)]

PlainReceive(i, q) ==
    /\ variant = "plain"
    /\ \E e \in {PlainEntry(Accepted + 1, q)} :
           IF e.r.done
           THEN /\ CanReject
                /\ resp' = Done(e.info, e.r.response)
                /\ reqs' = reqs
                /\ nreq' = nreq
           ELSE /\ HasQuota(e.info.route)
                /\ reqs' = [reqs EXCEPT ![i] =
                                InFlight(e.r.pc, e.info, e.r.key, e.r.text, Undefined, "", "")]
                /\ resp' = NoResponse
                /\ nreq' = Accept(e.info.route)
    /\ UNCHANGED <<variant, store, users, now, issued, cleared, writer, signupOk>>

AuthInfo(n, q, t) ==
    [Info0(n, q.method, q.path) EXCEPT !.route = AuthRouteName(q.method, q.path, q.origin),
                                       !.origin = q.origin,
                                       !.gate = Gate(q.header, t),
                                       !.body = BodyKind(q.body),
                                       !.session = BodySession(q.body)]

(* const { username, password } = body *)
BodyUser(body) == IF body.kind = "obj" /\ body.username # Null THEN body.username.u ELSE ""

(* part_000 up to the first awaited store access of the route. On the chat route *)
(* that is the put of the refreshed token, which happens once the token has      *)
(* verified and before the body is read.                                         *)
AuthEntry(n, q, t) ==
    LET route == AuthRouteName(q.method, q.path, q.origin)
        token == BearerToken(q.header)
        gate == AuthChatGate(q.method, q.header, t)
        passed == route = "chat" /\ ~gate.done
        refresh == passed /\ NeedsRefresh(token, t)
        refreshToken == IF route = "chat" /\ NeedsRefresh(token, t)
                        THEN CreateToken(token.username, t) ELSE Null
    IN  [info |-> [AuthInfo(n, q, t) EXCEPT !.refreshed = refresh,
                                            !.user = IF passed THEN token.username
                                                     ELSE IF route \in {"signup", "login"}
                                                     THEN BodyUser(q.body) ELSE ""],
         refresh |-> refresh,
         refreshToken |-> refreshToken,
         username |-> IF passed THEN token.username ELSE "",
         r |-> CASE route = "preflight" -> Respond(JsonResponse(204, Null))
                 [] route = "forbidden" ->
                       Respond(JsonResponse(403, [error |-> "Forbidden origin"]))
                 [] route = "signup" -> CredentialsRoute("signup_get", q.body)
                 [] route = "login" -> CredentialsRoute("login_get", q.body)
                 [] route = "verify" -> VerifyRoute(q.header, t)
                 [] OTHER -> IF gate.done THEN gate ELSE AuthChatBody(q.body, refreshToken)]

AuthReceive(i, q) ==
    /\ variant = "auth"
    /\ \E e \in {AuthEntry(Accepted + 1, q, now)} :
           /\ users' = IF e.refresh
                       THEN [users EXCEPT ![TokenKey(e.username)] = e.refreshToken]
                       ELSE users
           /\ IF e.r.done
              THEN /\ IF e.refresh
                      THEN HasQuota(e.info.route) /\ nreq' = Accept(e.info.route)
                      ELSE CanReject /\ nreq' = nreq
                   /\ resp' = Done(e.info, e.r.response)
                   /\ reqs' = reqs
                   /\ issued' = IF e.refresh THEN issued \cup {e.refreshToken} ELSE issued
              ELSE /\ HasQuota(e.info.route)
                   /\ reqs' = [reqs EXCEPT ![i] =
                                   IF e.info.route = "chat"
                                   THEN InFlight(e.r.pc, e.info, e.r.key, e.r.text,
                                                 e.refreshToken, e.username, "")
                                   ELSE InFlight(e.r.pc, e.info, <<>>, <<>>, Null,
                                                 q.body.username.u, q.body.password.u)]
                   /\ resp' = NoResponse
                   /\ nreq' = Accept(e.info.route)
                   /\ issued' = issued
    /\ UNCHANGED <<variant, store, now, cleared, writer, signupOk>>

(* time passes, by far more than a request takes: enough to bring a token issued *)
(* now within the refresh threshold, and twice that to let it expire             *)
ClockStep == TOKEN_EXPIRY - TOKEN_REFRESH_THRESHOLD + 1

(* the runtime has sent the response to the client *)
Sent ==
    /\ resp # NoResponse
    /\ resp' = NoResponse
    /\ UNCHANGED <<variant, store, users, reqs, nreq, now, issued, cleared, writer, signupOk>>

Tick ==
    /\ variant = "auth"
    /\ Quiet
    /\ now + ClockStep <= MaxTicks * ClockStep
    /\ now' = now + ClockStep
    /\ resp' = NoResponse
    /\ UNCHANGED <<variant, store, users, reqs, nreq, issued, cleared, writer, signupOk>>

----------------
(* /clear (index.ts only) *)

ClearKey(r) == r.key

(* a faulty variant of KvDelete: the key keeps its value *)
KvDeleteNothing(kv, k) == kv

(* env.CHAT_HISTORY_BAYMAX_PROXY.delete(sessionId) *)
KvDelete(kv, k) == [kv EXCEPT ![k] = Null]

(* a faulty variant of KvPut: a value already stored is kept (first writer wins) *)
KvPutIfAbsent(kv, k, value) == IF kv[k] = Null THEN [kv EXCEPT ![k] = value] ELSE kv

(* env.CHAT_HISTORY_BAYMAX_PROXY.put(sessionId, value, ...) *)
KvPut(kv, k, value) == [kv EXCEPT ![k] = value]

ClearDelete(i) ==
    /\ reqs[i] # Idle
    /\ reqs[i].pc = "delete"
    /\ LET r == reqs[i]
           k == ClearKey(r)
       IN  /\ store' = KvDelete(store, k)
           /\ cleared' = [cleared EXCEPT ![k] = "clean"]
           /\ writer' = [writer EXCEPT ![k] = ""]
           /\ resp' = Done([r.info EXCEPT !.deletes = @ + 1, !.key = k],
                           JsonResponse(200, [success |-> TRUE, message |-> "Session cleared"]))
    /\ reqs' = [reqs EXCEPT ![i] = Idle]
    /\ UNCHANGED <<variant, users, nreq, now, issued, signupOk>>

----------------------------------------------------------------------------
(* The chat turn, the same in both handlers *)

(* get, parse or seed, push the user turn, trim *)
ChatLoad(i) ==
    /\ reqs[i] # Idle
    /\ reqs[i].pc = "get"
    /\ LET r == reqs[i]
           historyRaw == store[r.key]
           history == TrimHistory(PushUser(LoadHistory(historyRaw), r.text))
       IN  /\ reqs' = [reqs EXCEPT ![i] =
                          [r EXCEPT !.pc = "vector",
                                    !.history = history,
                                    !.info = [@ EXCEPT !.loaded = IF historyRaw = Null THEN "none"
                                                                     ELSE "found",
                                                       !.trimmed = history,
                                                       !.afterClear = cleared[r.key]]]]
           /\ cleared' = [cleared EXCEPT ![r.key] = "no"]
    /\ resp' = NoResponse
    /\ UNCHANGED <<variant, store, users, nreq, now, issued, writer, signupOk>>

(* does the retrieval call count as failed: no answer, a non-2xx status, a body *)
(* that is not JSON, or no results                                              *)
VectorFailed(v) ==
    \/ v.kind = "neterr"
    \/ ~v.ok
    \/ v.body = Null
    \/ v.body.results = Null
    \/ v.body.results.items = <<>>

VectorClass(v) == IF VectorFailed(v) THEN "failed" ELSE "answered"

(* the retrieval call and the context message *)
ChatContext(i, v) ==
    /\ reqs[i] # Idle
    /\ reqs[i].pc = "vector"
    /\ LET r == reqs[i]
           context == VectorContext(v)
           history == UnshiftContext(r.history, context)
       IN  reqs' = [reqs EXCEPT ![i] =
                       [r EXCEPT !.pc = "groq",
                                 !.history = history,
                                 !.info = [@ EXCEPT !.vector = VectorClass(v),
                                                    !.context = context]]]
    /\ resp' = NoResponse
    /\ UNCHANGED <<variant, store, users, nreq, now, issued, cleared, writer, signupOk>>

Tokens(refreshToken) == IF refreshToken.kind = "jwt" THEN {refreshToken} ELSE {}

(* a faulty variant of StoreOnUpstreamError: the history is written before *)
(* groqRes.ok is looked at                                                 *)
StoreOnUpstreamErrorEager(kv, r) == KvPut(kv, r.key, Stringify(r.history))

(* the upstream error branch returns before the put: the store is not touched *)
StoreOnUpstreamError(kv, r) == kv

(* the completion call: an exception, the upstream error response, or the reply *)
ChatComplete(i, g) ==
    /\ reqs[i] # Idle
    /\ reqs[i].pc = "groq"
    /\ LET r == reqs[i]
           info == [r.info EXCEPT !.groq = IF g.kind = "resp" /\ g.ok THEN [kind |-> "ok"] ELSE g]
       IN  IF g.kind = "neterr"
           THEN /\ resp' = Done(info, IF variant = "plain" THEN PlainCatch("fetch failed")
                                      ELSE AuthCatch([kind |-> "error", message |-> "fetch failed"]))
                /\ reqs' = [reqs EXCEPT ![i] = Idle]
                /\ issued' = issued
                /\ store' = store
           ELSE IF ~g.ok
           THEN /\ resp' = Done(info, UpstreamErrorResponse(g, r.refreshToken))
                /\ reqs' = [reqs EXCEPT ![i] = Idle]
                /\ issued' = issued \cup Tokens(r.refreshToken)
                /\ store' = StoreOnUpstreamError(store, r)
           ELSE /\ reqs' = [reqs EXCEPT ![i] =
                               [r EXCEPT !.pc = "put",
                                         !.history = PushAssistant(r.history,
                                                                   TrimText(RawReply(g.data))),
                                         !.info = info]]
                /\ resp' = NoResponse
                /\ issued' = issued
                /\ store' = store
    /\ UNCHANGED <<variant, users, nreq, now, cleared, writer, signupOk>>

(* what is written to the session store *)
Persisted(r) == Stringify(r.history)

(* put the history, answer 200 *)
ChatPersist(i) ==
    /\ reqs[i] # Idle
    /\ reqs[i].pc = "put"
    /\ LET r == reqs[i]
       IN  /\ store' = KvPut(store, r.key, Persisted(r))
           /\ cleared' = [cleared EXCEPT ![r.key] = IF @ = "clean" THEN "dirty" ELSE @]
           /\ writer' = [writer EXCEPT ![r.key] = r.info.user]
           /\ resp' = Done([r.info EXCEPT !.puts = @ + 1, !.key = r.key],
                           JsonResponse(200, [reply |-> r.history[Len(r.history)].content,
                                              context |-> r.info.context,
                                              historyLength |-> Len(r.history),
                                              refreshToken |-> r.refreshToken]))
           /\ issued' = issued \cup Tokens(r.refreshToken)
    /\ reqs' = [reqs EXCEPT ![i] = Idle]
    /\ UNCHANGED <<variant, users, nreq, now, signupOk>>

----------------------------------------------------------------------------
(* /signup and /login (part_000 only) *)

(* const exists = await env.BAYMAX_USERS.get(username); if (exists) -> 409 *)
SignupExists(stored) == stored # Null

SignupGet(i) ==
    /\ reqs[i] # Idle
    /\ reqs[i].pc = "signup_get"
    /\ LET r == reqs[i]
       IN  IF SignupExists(users[r.username])
           THEN /\ resp' = Done(r.info, JsonResponse(409, [error |-> "Username already exists"]))
                /\ reqs' = [reqs EXCEPT ![i] = Idle]
           ELSE /\ reqs' = [reqs EXCEPT ![i].pc = "signup_put"]
                /\ resp' = NoResponse
    /\ UNCHANGED <<variant, store, users, nreq, now, issued, cleared, writer, signupOk>>

(* hash the password and store it under the username *)
SignupPut(i) ==
    /\ reqs[i] # Idle
    /\ reqs[i].pc = "signup_put"
    /\ LET r == reqs[i]
       IN  users' = [users EXCEPT ![r.username] = Hash(r.password, r.info.n)]
    /\ reqs' = [reqs EXCEPT ![i].pc = "signup_token"]
    /\ resp' = NoResponse
    /\ UNCHANGED <<variant, store, nreq, now, issued, cleared, writer, signupOk>>

(* create the token, store it under `${username}_token`, answer 200 *)
SignupToken(i) ==
    /\ reqs[i] # Idle
    /\ reqs[i].pc = "signup_token"
    /\ LET r == reqs[i]
           token == CreateToken(r.username, now)
       IN  /\ users' = [users EXCEPT ![TokenKey(r.username)] = token]
           /\ issued' = issued \cup {token}
           /\ resp' = Done(r.info, JsonResponse(200, [token |-> token]))
           /\ signupOk' = [signupOk EXCEPT ![r.username] = @ + 1]
    /\ reqs' = [reqs EXCEPT ![i] = Idle]
    /\ UNCHANGED <<variant, store, nreq, now, cleared, writer>>

LoginGet(i) ==
    /\ reqs[i] # Idle
    /\ reqs[i].pc = "login_get"
    /\ LET r == reqs[i]
           stored == users[r.username]
       IN  IF stored = Null \/ ~Compare(r.password, stored)
           THEN /\ resp' = Done(r.info, JsonResponse(401, [error |-> "Invalid credentials"]))
                /\ reqs' = [reqs EXCEPT ![i] = Idle]
           ELSE /\ reqs' = [reqs EXCEPT ![i].pc = "login_put"]
                /\ resp' = NoResponse
    /\ UNCHANGED <<variant, store, users, nreq, now, issued, cleared, writer, signupOk>>

LoginPut(i) ==
    /\ reqs[i] # Idle
    /\ reqs[i].pc = "login_put"
    /\ LET r == reqs[i]
           token == CreateToken(r.username, now)
       IN  /\ users' = [users EXCEPT ![TokenKey(r.username)] = token]
           /\ issued' = issued \cup {token}
           /\ resp' = Done(r.info, JsonResponse(200, [token |-> token]))
    /\ reqs' = [reqs EXCEPT ![i] = Idle]
    /\ UNCHANGED <<variant, store, nreq, now, cleared, writer, signupOk>>

----------------------------------------------------------------------------
(* The system *)

Receive ==
    \E i \in Slots :
        /\ FreeSlot(i)
        /\ CanReject \/ Accepted < MaxRequests
        /\ \/ \E q \in PlainBodiless : PlainReceive(i, q)
           \/ \E p \in {"/", "/clear"}, b \in ChatBodies(Accepted + 1) :
                  PlainReceive(i, Request("POST", p, GoodOrigin, JsonType, NoHeader, b))
           \/ \E q \in AuthBodiless : AuthReceive(i, q)
           \/ \E p \in {"/signup", "/login"}, b \in UserBodies :
                  AuthReceive(i, Request("POST", p, GoodOrigin, JsonType, NoHeader, b))
           \/ \E h \in Headers(now) :
                  AuthReceive(i, Request("GET", "/verify", GoodOrigin, JsonType, h, Null))
           \/ \E h \in Headers(now), p \in {"/", "/clear"} :
                  \E b \in AuthChatBodies(h, Accepted + 1, now) :
                      AuthReceive(i, Request("POST", p, GoodOrigin, JsonType, h, b))

Step ==
    \E i \in Slots :
        \/ ClearDelete(i)
        \/ ChatLoad(i)
        \/ \E v \in VectorOutcomes : ChatContext(i, v)
        \/ reqs[i] # Idle /\ \E g \in GroqOutcomes(reqs[i].info.n) : ChatComplete(i, g)
        \/ ChatPersist(i)
        \/ SignupGet(i)
        \/ SignupPut(i)
        \/ SignupToken(i)
        \/ LoginGet(i)
        \/ LoginPut(i)

Next == Receive \/ Step \/ Sent \/ Tick

Spec == Init /\ [][Next]_vars

----------------------------------------------------------------------------
(* The load-push-trim step on its own: one chat request about to load a stored *)
(* history of any length up to MAX_HISTORY + MaxOverflow, with system messages *)
(* anywhere in it                                                              *)

MaxSystemMessages == 2

(* a stored history can be longer than MAX_HISTORY: the context message and the *)
(* assistant reply are added after the trim                                     *)
MaxOverflow == 2

StoredMessage(j, systemAt) ==
    IF j \in systemAt
    THEN [role |-> "system", content |-> <<"sys" \o ToString(j)>>]
    ELSE [role |-> IF j % 2 = 0 THEN "user" ELSE "assistant",
          content |-> <<"c" \o ToString(j)>>]

StoredHistories ==
    UNION {{[j \in 1 .. len |-> StoredMessage(j, {at[i] : i \in 1 .. MaxSystemMessages})] :
                at \in [1 .. MaxSystemMessages -> 0 .. len]} :
           len \in 0 .. MAX_HISTORY + MaxOverflow}

TrimRequest ==
    InFlight("get",
             [Info0(1, "POST", "/") EXCEPT !.route = "chat", !.body = "object",
                                           !.session = Str(<<"s">>)],
             <<"s">>, <<"m1">>, IF variant = "plain" THEN Undefined ELSE Null, "", "")

InitTrim ==
    /\ variant \in {"plain", "auth"}
    /\ \E raw \in {Null} \cup {Stringify(h) : h \in StoredHistories} :
           store = [k \in SessionKeys |-> IF k = <<"s">> THEN raw ELSE Null]
    /\ users = [k \in UserKeys |-> Null]
    /\ issued = {}
    /\ signupOk = [u \in Usernames |-> 0]
    /\ reqs = [i \in Slots |-> IF i = 1 THEN TrimRequest ELSE Idle]
    /\ resp = NoResponse
    /\ nreq = [route \in {"chat", "clear", "signup", "login"} |->
                   IF route = "chat" THEN 1 ELSE 0]
    /\ now = 0
    /\ cleared = [k \in SessionKeys |-> "no"]
    /\ writer = [k \in SessionKeys |-> ""]

NextTrim == \E i \in Slots : ChatLoad(i)

SpecTrim == InitTrim /\ [][NextTrim]_vars

----------------------------------------------------------------------------
(* Properties *)

StoredHistory(k) == Parse(store[k])

(* C1: after any sequence of chat and clear requests, in either handler, every *)
(* value stored under a session key holds at most MAX_HISTORY (20) messages.   *)
C1_StoredHistoryAtMostMax ==
    \A k \in SessionKeys : store[k] # Null => Len(StoredHistory(k)) <= MAX_HISTORY

(* C2: for a session that started with no stored history, after any number of *)
(* successful chats, with or without retrieval context, the first message of  *)
(* the stored history is the default system message.                          *)
C2_DefaultSystemStaysFirst ==
    \A k \in SessionKeys : store[k] # Null => Head(StoredHistory(k)) = DefaultSystem

(* a response to a chat (POST) or /verify request of the auth handler from an *)
(* allowed origin                                                             *)
TokenChecked(info) ==
    /\ variant = "auth"
    /\ info.origin \in ALLOWED_ORIGINS
    /\ \/ info.route = "verify"
       \/ info.route = "chat" /\ info.method = "POST"

(* C3: in the auth handler a chat or /verify request whose bearer token is     *)
(* missing, malformed, wrongly signed or expired is answered 401 (or 403),     *)
(* never with another status.                                                  *)
C3_BadTokenIsUnauthorized ==
    (/\ resp # NoResponse
     /\ TokenChecked(resp.info)
     /\ resp.info.gate \in {"missing", "malformed", "badsig", "expired"})
        => resp.status \in {401, 403}

(* a POST to /clear with a JSON object as body that is let through: the auth *)
(* handler also wants an allowed origin and a valid token                    *)
ClearRequest(info) ==
    /\ info.method = "POST"
    /\ info.path = "/clear"
    /\ info.body = "object"
    /\ variant = "auth" => info.origin \in ALLOWED_ORIGINS /\ info.gate = "valid"

NonEmptyId(v) == v # Null /\ v.s # <<>>

(* C4: in each handler a POST to /clear with a non-empty sessionId deletes the *)
(* session's history and answers 200, one without a sessionId answers 400 and  *)
(* deletes nothing, and a /clear request never runs a chat turn: it is never   *)
(* anywhere but at the delete, calls no model and writes no history.           *)
C4_ClearDeletesAndNeverChats ==
    /\ \A i \in Slots :
           (reqs[i] # Idle /\ ClearRequest(reqs[i].info)) => reqs[i].pc = "delete"
    /\ (resp # NoResponse /\ ClearRequest(resp.info)) =>
           /\ resp.info.puts = 0
           /\ resp.info.groq.kind = "none"
           /\ IF NonEmptyId(resp.info.session)
              THEN /\ resp.status = 200
                   /\ resp.info.deletes = 1
                   /\ store[resp.info.key] = Null
              ELSE resp.status = 400 /\ resp.info.deletes = 0

(* the request read no stored history and started from the default system message *)
ReadNothing(info) ==
    /\ info.loaded = "none"
    /\ Len(info.trimmed) = 2
    /\ info.trimmed[1] = DefaultSystem
    /\ info.trimmed[2].role = "user"

(* C5 as stated: the first chat to read session s after a /clear of s has      *)
(* answered 200 reads no stored history and starts from the default system     *)
(* message.                                                                    *)
C5_NextChatAfterClearReadsNothing ==
    /\ \A i \in Slots :
           (reqs[i] # Idle /\ reqs[i].info.afterClear \in {"clean", "dirty"})
               => ReadNothing(reqs[i].info)
    /\ resp.info.afterClear \in {"clean", "dirty"} => ReadNothing(resp.info)

(* C5 amended: the first chat to read session s after a /clear of s has        *)
(* answered 200, when no request has written s since that clear, reads no      *)
(* stored history and starts from the default system message.                  *)
C5_NextChatAfterQuietClearReadsNothing ==
    /\ \A i \in Slots :
           (reqs[i] # Idle /\ reqs[i].info.afterClear = "clean") => ReadNothing(reqs[i].info)
    /\ resp.info.afterClear = "clean" => ReadNothing(resp.info)

(* a chat that read s right after a clear has stored its turn and answered 200 *)
C5_Witness ==
    /\ resp.info.afterClear = "clean"
    /\ resp.info.puts = 1
    /\ resp.status = 200
    /\ Len(StoredHistory(resp.info.key)) >= 3

(* C6: on every successful chat the value written to the session store is the *)
(* trimmed history followed by the assistant reply, without the retrieval     *)
(* context message; a first chat on an empty store stores exactly 3 messages. *)
C6_StoredIsTrimmedPlusReply ==
    resp.info.puts > 0 =>
        /\ StoredHistory(resp.info.key) = PushAssistant(resp.info.trimmed, resp.body.reply)
        /\ resp.info.loaded = "none" => Len(StoredHistory(resp.info.key)) = 3

(* C7: for every stored history of length at most MAX_HISTORY and every new   *)
(* user turn, the history right after the trim has length at most MAX_HISTORY *)
(* and a leading system message of the stored history is its first element.   *)
C7_TrimKeepsBoundAndLeadingSystem ==
    \A i \in Slots :
        (reqs[i] # Idle /\ reqs[i].pc = "vector" /\ store[reqs[i].key] # Null) =>
            LET stored == StoredHistory(reqs[i].key)
                trimmed == reqs[i].history
            IN  Len(stored) <= MAX_HISTORY =>
                    /\ Len(trimmed) <= MAX_HISTORY
                    /\ (stored # <<>> /\ IsSystem(Head(stored)))
                           => Head(trimmed) = Head(stored)

(* a full stored history with a leading system message has been trimmed: the *)
(* system message stayed and the oldest other message went                   *)
C7_Witness ==
    /\ reqs[1] # Idle
    /\ reqs[1].pc = "vector"
    /\ store[reqs[1].key] # Null
    /\ Len(StoredHistory(reqs[1].key)) = MAX_HISTORY
    /\ IsSystem(Head(StoredHistory(reqs[1].key)))
    /\ Len(reqs[1].history) = MAX_HISTORY
    /\ reqs[1].history[1] = StoredHistory(reqs[1].key)[1]
    /\ reqs[1].history[2] = StoredHistory(reqs[1].key)[3]

(* the status of a chat response as the completion call alone decides it *)
StatusWithoutRetrieval(groq) ==
    IF groq.kind = "ok" THEN 200 ELSE IF groq.kind = "neterr" THEN 500 ELSE 502

(* C8: if the retrieval call fails in any way (no answer, a non-2xx status, a *)
(* body that is not JSON, missing or empty results), the context is empty, no *)
(* context message is added to the messages sent to the model, and the        *)
(* response has the status it would have had with no retrieval result.        *)
C8_FailedRetrievalLeavesNoContext ==
    /\ \A i \in Slots :
           (reqs[i] # Idle /\ reqs[i].info.vector = "failed") =>
               /\ reqs[i].info.context = <<>>
               /\ reqs[i].pc = "groq" => reqs[i].history = reqs[i].info.trimmed
    /\ resp.info.vector = "failed" =>
           /\ resp.info.context = <<>>
           /\ resp.status = StatusWithoutRetrieval(resp.info.groq)

(* C9: whenever the completion API answers with a non-2xx status the chat      *)
(* request responds 502 with the upstream status and the raw upstream body, or *)
(* '<no-body>' if it cannot be read; the request goes no further.              *)
C9_UpstreamErrorIs502 ==
    /\ resp.info.groq.kind = "resp" =>
           /\ resp.status = 502
           /\ resp.body.upstreamStatus = resp.info.groq.status
           /\ resp.body.detail = IF resp.info.groq.text = Null THEN <<"<no-body>">>
                                 ELSE resp.info.groq.text.s
    /\ \A i \in Slots : reqs[i] # Idle => reqs[i].info.groq.kind \in {"none", "ok"}

(* the completion API answered 500 with a body that could not be read *)
C9_Witness ==
    /\ resp.info.groq.kind = "resp"
    /\ resp.info.groq.status = 500
    /\ resp.info.groq.text = Null
    /\ resp.status = 502
    /\ resp.body.detail = <<"<no-body>">>

(* C10: under every interleaving of requests at most one signup per username *)
(* ever succeeds with 200.                                                   *)
C10_AtMostOneSignupSucceeds ==
    \A u \in Usernames : signupOk[u] <= 1

(* how a token that does not verify fares at the gate *)
Unverified == {"missing", "malformed", "badsig", "expired"}

(* what a response carries as refreshToken, Null if it carries none *)
RefreshTokenOf(body) ==
    IF "refreshToken" \in DOMAIN body THEN body.refreshToken ELSE Null

(* the response now sent answers a chat-path request of the auth handler whose *)
(* token did not verify                                                        *)
AnswersUnverifiedChat(r) ==
    /\ variant = "auth"
    /\ r # NoResponse
    /\ r.info.route = "chat"
    /\ r.info.method = "POST"
    /\ r.info.gate \in Unverified

(* C11: in the auth handler a request on the chat path whose token does not  *)
(* verify never gets past the gate; answering it leaves the session store,   *)
(* the user store and the set of issued tokens as they were, and it has made *)
(* no retrieval call and no completion call and carries no refreshed token.  *)
C11_UnverifiedChatDoesNothing ==
    /\ [](\A i \in Slots :
              (variant = "auth" /\ reqs[i] # Idle /\ reqs[i].info.route = "chat")
                  => reqs[i].info.gate = "valid")
    /\ [](AnswersUnverifiedChat(resp) =>
              /\ resp.info.loaded = "unread"
              /\ resp.info.puts = 0
              /\ resp.info.deletes = 0
              /\ resp.info.vector = "none"
              /\ resp.info.groq.kind = "none"
              /\ ~resp.info.refreshed
              /\ RefreshTokenOf(resp.body) = Null)
    /\ [][(resp' # resp /\ AnswersUnverifiedChat(resp'))
              => (store' = store /\ users' = users /\ issued' = issued)]_vars

(* a chat request with an expired token has been answered *)
C11_Witness ==
    /\ AnswersUnverifiedChat(resp)
    /\ resp.info.gate = "expired"
    /\ resp.status = 500

(* the password matches a hash stored under the username *)
PasswordMatches(u, password) ==
    users[u].kind = "hash" /\ users[u].of = password

(* C12: a login reads the user store once; if no hash is stored under the    *)
(* username or the password does not match it, the login is answered 401     *)
(* 'Invalid credentials' and that leaves the user store and the issued       *)
(* tokens as they were; a login is answered 200 only after a matching read.  *)
C12_LoginNeedsMatchingPassword ==
    /\ [][\A i \in Slots :
              (reqs[i].pc = "login_get" /\ reqs'[i] # reqs[i]) =>
                  IF PasswordMatches(reqs[i].username, reqs[i].password)
                  THEN reqs'[i].pc = "login_put" /\ users' = users /\ issued' = issued
                  ELSE /\ reqs'[i] = Idle
                       /\ resp'.info.route = "login"
                       /\ resp'.status = 401
                       /\ resp'.body = [error |-> "Invalid credentials"]
                       /\ users' = users
                       /\ issued' = issued]_vars
    /\ [][(resp' # resp /\ resp'.info.route = "login" /\ resp'.status = 200)
              => \E i \in Slots : reqs[i].pc = "login_put" /\ reqs'[i] = Idle]_vars

(* a login for the registered user "a" has been answered 401: the password *)
(* did not match                                                           *)
C12_Witness ==
    /\ resp.info.route = "login"
    /\ resp.info.user = "a"
    /\ resp.status = 401
    /\ resp.body = [error |-> "Invalid credentials"]
    /\ users["a"].kind = "hash"

(* the positions of the system messages of a history *)
SystemAt(h) == {j \in 1 .. Len(h) : IsSystem(h[j])}

(* the first system message of a history that has one *)
FirstSystem(h) ==
    h[CHOOSE j \in SystemAt(h) : \A l \in SystemAt(h) : j <= l]

(* C13: trimming evicts only the oldest non-system messages: the non-system  *)
(* messages kept are a most-recent suffix, in order, of the non-system       *)
(* messages of the stored history with the new user turn appended, all of    *)
(* them if they fit; the new user turn is kept, as the last message; the     *)
(* first system message found, if any, is at the front and no other system   *)
(* message is kept.                                                          *)
C13_TrimEvictsOldestNonSystem ==
    \A i \in Slots :
        (reqs[i] # Idle /\ reqs[i].pc = "vector") =>
            LET pushed == Append(LoadHistory(store[reqs[i].key]),
                                 [role |-> "user", content |-> reqs[i].text])
                others == SelectSeq(pushed, IsNotSystem)
                trimmed == reqs[i].history
                kept == SelectSeq(trimmed, IsNotSystem)
                pinned == IF SystemAt(pushed) = {} THEN 0 ELSE 1
            IN  /\ \E d \in 0 .. Len(others) : kept = SubSeq(others, d + 1, Len(others))
                /\ Len(others) + pinned <= MAX_HISTORY => kept = others
                /\ trimmed[Len(trimmed)] = [role |-> "user", content |-> reqs[i].text]
                /\ Cardinality(SystemAt(trimmed)) = pinned
                /\ pinned = 1 => trimmed[1] = FirstSystem(pushed)

(* a stored history longer than MAX_HISTORY with two system messages, neither *)
(* of them first, has been trimmed: one system message is left, at the front, *)
(* and the oldest other messages went                                         *)
C13_Witness ==
    /\ reqs[1] # Idle
    /\ reqs[1].pc = "vector"
    /\ store[reqs[1].key] # Null
    /\ Len(StoredHistory(reqs[1].key)) > MAX_HISTORY
    /\ Cardinality(SystemAt(StoredHistory(reqs[1].key))) = 2
    /\ ~IsSystem(StoredHistory(reqs[1].key)[1])
    /\ Len(reqs[1].history) = MAX_HISTORY
    /\ IsSystem(reqs[1].history[1])
    /\ reqs[1].history[2] # StoredHistory(reqs[1].key)[1]

(* the chat request in slot i has read the session store and not yet written it *)
ReadNotWritten(r) == r.pc \in {"vector", "groq", "put"}

UserTurn(r) == [role |-> "user", content |-> r.text]

Contains(h, m) == \E x \in 1 .. Len(h) : h[x] = m

(* C14: last writer wins. Two chat requests on one session that have both    *)
(* read the store before either wrote hold histories without each other's    *)
(* user turn; the put of either replaces whatever is stored by its own       *)
(* history, so after both have written the stored history is the later       *)
(* writer's and holds the turn of only one of the two.                       *)
C14_LastWriterWins ==
    /\ [](\A i, j \in Slots :
              (/\ i # j
               /\ ReadNotWritten(reqs[i])
               /\ ReadNotWritten(reqs[j])
               /\ reqs[i].key = reqs[j].key)
                  => ~Contains(reqs[i].history, UserTurn(reqs[j])))
    /\ [][\A i \in Slots :
              (reqs[i].pc = "put" /\ reqs'[i] = Idle) =>
                  /\ store'[reqs[i].key] = Stringify(reqs[i].history)
                  /\ Contains(Parse(store'[reqs[i].key]), UserTurn(reqs[i]))
                  /\ \A j \in Slots :
                         (/\ j # i
                          /\ ReadNotWritten(reqs[j])
                          /\ reqs[j].key = reqs[i].key)
                             => ~Contains(Parse(store'[reqs[i].key]), UserTurn(reqs[j]))]_vars

(* of two chats on one session that both read before either wrote, the first *)
(* has written and been answered 200 and the second is about to overwrite it *)
C14_Witness ==
    /\ resp.status = 200
    /\ resp.info.puts = 1
    /\ \E j \in Slots :
           /\ reqs[j].pc = "put"
           /\ reqs[j].key = resp.info.key
           /\ Contains(StoredHistory(resp.info.key), resp.info.trimmed[Len(resp.info.trimmed)])
           /\ ~Contains(reqs[j].history, resp.info.trimmed[Len(resp.info.trimmed)])
           /\ ~Contains(StoredHistory(resp.info.key), UserTurn(reqs[j]))

(* the user store with the '<username>_token' records taken out *)
WithoutTokenRecords(us) ==
    [k \in UserKeys |-> IF us[k].kind = "jwt" THEN Null ELSE us[k]]

(* C15: the stored '<username>_token' record is inert, for every choice of   *)
(* usernames: a signup is rejected as a duplicate, and a login is let        *)
(* through, exactly when it would be with the token records taken out of the *)
(* user store, and no write to the user store replaces a password hash by    *)
(* something that is not one.                                                *)
C15_TokenRecordIsInert ==
    [][/\ \A i \in Slots :
              (reqs[i].pc = "signup_get" /\ reqs'[i] # reqs[i]) =>
                  ((reqs'[i] = Idle)
                       <=> SignupExists(WithoutTokenRecords(users)[reqs[i].username]))
       /\ \A i \in Slots :
              (reqs[i].pc = "login_get" /\ reqs'[i] # reqs[i]) =>
                  ((reqs'[i].pc = "login_put")
                       <=> Compare(reqs[i].password,
                                   WithoutTokenRecords(users)[reqs[i].username]))
       /\ \A k \in UserKeys : users[k].kind = "hash" => users'[k].kind = "hash"]_vars

(* the response now sent answers a chat request of the auth handler whose *)
(* token verified                                                         *)
AnswersVerifiedChat(r) ==
    /\ variant = "auth"
    /\ r # NoResponse
    /\ r.info.route = "chat"
    /\ r.info.method = "POST"
    /\ r.info.gate = "valid"

(* C16: in the auth handler the response to a chat request with a valid token *)
(* carries a new token as refreshToken, whatever its status, when the token   *)
(* presented was within TOKEN_REFRESH_THRESHOLD of its expiry, and a null     *)
(* refreshToken otherwise.                                                    *)
C16_RefreshTokenInEveryResponse ==
    AnswersVerifiedChat(resp) =>
        IF resp.info.refreshed
        THEN RefreshTokenOf(resp.body).kind = "jwt"
        ELSE RefreshTokenOf(resp.body) = Null

(* the response now sent answers a request on the chat route with a status *)
(* other than 200                                                          *)
AnswersFailedChat(r) ==
    /\ r # NoResponse
    /\ r.info.route = "chat"
    /\ r.status # 200

(* C17: a chat request that ends with a status other than 200 has performed  *)
(* no put and no delete on the session store, and the step that answers it   *)
(* leaves the stored history of every session as it was.                     *)
C17_FailedChatWritesNothing ==
    /\ [](AnswersFailedChat(resp) => resp.info.puts = 0 /\ resp.info.deletes = 0)
    /\ [][(resp' # resp /\ AnswersFailedChat(resp')) => store' = store]_vars

(* a chat that had loaded a stored history and got a non-2xx completion has *)
(* been answered 502                                                        *)
C17_Witness ==
    /\ AnswersFailedChat(resp)
    /\ resp.status = 502
    /\ resp.info.loaded = "found"
    /\ resp.info.puts = 0

(* the step is the history get of the chat in slot i *)
ChatLoads(i) == reqs[i] # Idle /\ reqs[i].pc = "get" /\ reqs'[i] # reqs[i]

(* the step is the history put of the chat in slot i *)
ChatPersists(i) == reqs[i] # Idle /\ reqs[i].pc = "put" /\ reqs'[i] = Idle

(* C18: in the auth handler the stored history is isolated per authenticated  *)
(* user: a chat by user A loads only a history that no chat of a different    *)
(* user B has put (so what it sends to the model holds no turn of B), and it  *)
(* never overwrites a history that B's chat has put.                          *)
C18_HistoryIsolatedPerUser ==
    [][variant = "auth" =>
           \A i \in Slots :
               ChatLoads(i) \/ ChatPersists(i) =>
                   writer[reqs[i].key] \in {"", reqs[i].info.user}]_vars

====
